---- MODULE Spec2Model ----
(***************************************************************************)
(* Model of the support/resistance analysis core (src/sr_core.py) and of   *)
(* the caller-side memoization in the dashboard (src/app_streamlit.py).    *)
(*                                                                         *)
(* Every core function is a pure function of its arguments; the model has  *)
(* one action per function: from the idle state the action draws the       *)
(* arguments from bounded sets, applies the function (an operator that is  *)
(* translated from the code) and records the call and what it returned.    *)
(* Return goes back to idle.                                               *)
(*                                                                         *)
(* A scalar cell of a pandas frame is a record [k, n, d]: a number n/d     *)
(* (k = "num", d > 0), a NaN (k = "nan") or Python's None (k = "none").    *)
(* Floating point is modelled by exact rationals.                          *)
(***************************************************************************)
EXTENDS Integers, Sequences, FiniteSets, TLC

VARIABLES
    pc,        \* "idle" | "returned"
    call,      \* the arguments of the call in progress
    ret,       \* what the call returned, or the exception it raised
    settings,  \* the dashboard's sidebar widgets
    cache,     \* what st.cache_data stores for get_analysis: [key, value]
    shown,     \* what show_stock last got from get_analysis, and for what
    last_alert,  \* st.session_state.last_alert: symbol -> kind, or "None"
    dispatched   \* the BUY/SELL kinds the latest show_stock sent alerts for

coreVars == <<pc, call, ret>>

appVars == <<settings, cache, shown, last_alert, dispatched>>

vars == <<pc, call, ret, settings, cache, shown, last_alert, dispatched>>

-----------------------------------------------------------------------------
(* Scalars *)

NaN == [k |-> "nan", n |-> 0, d |-> 1]

None == [k |-> "none", n |-> 0, d |-> 1]

Rat(a, b) == [k |-> "num", n |-> a, d |-> b]

Num(i) == Rat(i, 1)

IsNum(x) == x.k = "num"

\* Python's "x is not None"
NotNone(x) == x.k # "none"

\* IEEE comparison: false as soon as an operand is NaN
Lt(x, y) == IsNum(x) /\ IsNum(y) /\ x.n * y.d < y.n * x.d

Gt(x, y) == Lt(y, x)

Le(x, y) == IsNum(x) /\ IsNum(y) /\ x.n * y.d <= y.n * x.d

Ge(x, y) == Le(y, x)

\* Python truthiness of a scalar: None and 0 are false, NaN is true
Truthy(x) == x.k = "nan" \/ (x.k = "num" /\ x.n # 0)

\* a timestamp (the label of a bar): day number d
Ts(d) == [k |-> "ts", day |-> d]

\* x * (a / b)
Scale(x, a, b) == IF IsNum(x) THEN Rat(x.n * a, x.d * b) ELSE x

-----------------------------------------------------------------------------
(* Frames: [index |-> <<labels>>, col |-> [column name |-> <<cells>>]] *)

Columns(df) == DOMAIN df.col

NRows(df) == Len(df.index)

\* df.iloc[-1]: the last row, as a record over the columns, with its label
LastRow(df) ==
    [name |-> df.index[NRows(df)],
     cell |-> [c \in Columns(df) |-> df.col[c][NRows(df)]]]

\* mutant: a default of 0 where the code asks for None
RowGetZero(row, c) == IF c \in DOMAIN row.cell THEN row.cell[c] ELSE Num(0)

\* row.get(c, None)
RowGet(row, c) == IF c \in DOMAIN row.cell THEN row.cell[c] ELSE None

RECURSIVE SumCells(_, _, _)
SumCells(s, lo, hi) ==
    IF lo > hi THEN 0 ELSE s[lo].n + SumCells(s, lo + 1, hi)

\* mutant: min_periods = 1, the mean of the cells that are available
RollingMeanLastMinOne(s, window) ==
    LET n == Len(s)
        lo == IF n < window THEN 1 ELSE n - window + 1
        ok == {i \in lo..n : IsNum(s[i])}
    IN IF ok = {} THEN NaN
       ELSE Rat(SumCells([i \in 1..n |-> IF i \in ok THEN s[i] ELSE Num(0)], lo, n),
                Cardinality(ok))

VolWindow == 20

\* series.rolling(window).mean().iloc[-1], min_periods left at its default
\* (= window): NaN unless the last `window` cells are all numbers.  The cells
\* of the modelled volume columns are integers (d = 1).
RollingMeanLast(s, window) ==
    LET n == Len(s) IN
    IF n < window \/ \E i \in (n - window + 1)..n : ~IsNum(s[i])
    THEN NaN
    ELSE Rat(SumCells(s, n - window + 1, n), window)

\* sr_levels[-5:]
RecentWindow == 5

\* mutant: the loop runs over every level
LastLevelsAll(sr_levels) == sr_levels

LastLevels(sr_levels) ==
    LET n == Len(sr_levels) IN
    IF n <= RecentWindow THEN sr_levels
    ELSE SubSeq(sr_levels, n - RecentWindow + 1, n)

-----------------------------------------------------------------------------
(* generate_signals *)

NearNum == 101
FarNum == 99
PctDen == 100

\* mutant: the volume filter is not applied
VolumeConfirmedAlways(use_volume, current_volume, avg_volume) == TRUE

\* not use_volume or (current_volume and avg_volume and current_volume > avg_volume)
VolumeConfirmed(use_volume, current_volume, avg_volume) ==
    ~use_volume
    \/ (Truthy(current_volume) /\ Truthy(avg_volume) /\ Gt(current_volume, avg_volume))

MkSignal(kind, reason, row, rsi, macd, current_volume) ==
    [signal |-> kind, reason |-> reason, price |-> row.cell["Close"],
     time |-> row.name, RSI |-> rsi, MACD |-> macd, Volume |-> current_volume]

BuyReason(use_volume) ==
    IF use_volume
    THEN "RSI oversold + near support + MACD bullish + Volume confirmation"
    ELSE "RSI oversold + near support + MACD bullish"

SellReason(use_volume) ==
    IF use_volume
    THEN "RSI overbought + near resistance + MACD bearish + Volume confirmation"
    ELSE "RSI overbought + near resistance + MACD bearish"

\* the first "if" of the loop body (lines 80-92)
BuyFires(lvl, close_price, rsi, macd, macd_signal, volOK) ==
    /\ lvl.type = "support" /\ Le(close_price, Scale(lvl.price, NearNum, PctDen))
    /\ NotNone(rsi) /\ NotNone(macd) /\ NotNone(macd_signal)
    /\ Lt(rsi, Num(30)) /\ Gt(macd, macd_signal) /\ volOK

\* the second "if" of the loop body (lines 94-106)
SellFires(lvl, close_price, rsi, macd, macd_signal, volOK) ==
    /\ lvl.type = "resistance" /\ Ge(close_price, Scale(lvl.price, FarNum, PctDen))
    /\ NotNone(rsi) /\ NotNone(macd) /\ NotNone(macd_signal)
    /\ Gt(rsi, Num(70)) /\ Lt(macd, macd_signal) /\ volOK

\* the for loop over sr_levels[-5:], from level i on
RECURSIVE SignalLoop(_, _, _, _, _)
SignalLoop(lvls, i, row, use_volume, avg_volume) ==
    IF i > Len(lvls) THEN <<>>
    ELSE
      LET lvl == lvls[i]
          rsi == RowGet(row, "RSI")
          macd == RowGet(row, "MACD")
          macd_signal == RowGet(row, "MACD_Signal")
          close_price == row.cell["Close"]
          current_volume == RowGet(row, "Volume")
          volOK == VolumeConfirmed(use_volume, current_volume, avg_volume)
          buy == IF BuyFires(lvl, close_price, rsi, macd, macd_signal, volOK)
                 THEN <<MkSignal("BUY", BuyReason(use_volume), row, rsi, macd, current_volume)>>
                 ELSE <<>>
          sell == IF SellFires(lvl, close_price, rsi, macd, macd_signal, volOK)
                  THEN <<MkSignal("SELL", SellReason(use_volume), row, rsi, macd, current_volume)>>
                  ELSE <<>>
      IN buy \o sell \o SignalLoop(lvls, i + 1, row, use_volume, avg_volume)

\* generate_signals(df, sr_levels, use_volume) on a frame with at least one row
\* and a Close column
GenerateSignals(df, sr_levels, use_volume) ==
    LET last_row == LastRow(df)
        avg_volume == IF "Volume" \in Columns(df)
                      THEN RollingMeanLast(df.col["Volume"], VolWindow)
                      ELSE None
        found == SignalLoop(LastLevels(sr_levels), 1, last_row, use_volume, avg_volume)
    IN IF found # <<>> THEN found
       ELSE <<MkSignal("HOLD", "No strong signal", last_row,
                       RowGet(last_row, "RSI"), RowGet(last_row, "MACD"),
                       RowGet(last_row, "Volume"))>>

-----------------------------------------------------------------------------
(* Arguments of generate_signals *)

MaxLevels == 6
MaxBars == 21

LevelTypes == {"support", "resistance"}

LevelPrices == {Num(100)}

\* level lists of length n; the date of a level is its rank in the list
RECURSIVE LevelLists(_)
LevelLists(n) ==
    IF n = 0 THEN {<<>>}
    ELSE {Append(l, [type |-> t, price |-> p, date |-> Ts(n)]) :
              l \in LevelLists(n - 1), t \in LevelTypes, p \in LevelPrices}

BarCounts == {1} \cup ((VolWindow - 1)..MaxBars)

Closes == {Num(98), Num(99), Num(101), Num(102)}

RsiReadings == {None, NaN, Num(25), Num(75)}

MacdReadings ==
    {<<Num(1), Num(0)>>, <<Num(0), Num(1)>>, <<NaN, Num(0)>>, <<None, Num(0)>>,
     <<Num(1), NaN>>, <<Num(0), None>>}

FillVolume == Num(2)

LastVolumes == {Num(0), Num(2), Num(3)}

HeadVolumes == {FillVolume, NaN}

\* a column whose last cell is `last`, first cell `head`, the others `fill`
Column(n, head, fill, last) ==
    [i \in 1..n |-> IF i = n THEN last ELSE IF i = 1 THEN head ELSE fill]

\* An indicator frame of n bars.  A reading of None stands for a frame that
\* lacks the column.
IndicatorFrame(n, close, rsi, macd, sig, hasVolume, headVol, lastVol) ==
    LET cols == {"Close"}
                \cup (IF NotNone(rsi) THEN {"RSI"} ELSE {})
                \cup (IF NotNone(macd) THEN {"MACD"} ELSE {})
                \cup (IF NotNone(sig) THEN {"MACD_Signal"} ELSE {})
                \cup (IF hasVolume THEN {"Volume"} ELSE {})
    IN [index |-> [i \in 1..n |-> Ts(i)],
        col |-> [c \in cols |->
                   CASE c = "Close" -> Column(n, Num(100), Num(100), close)
                     [] c = "RSI" -> Column(n, Num(50), Num(50), rsi)
                     [] c = "MACD" -> Column(n, Num(0), Num(0), macd)
                     [] c = "MACD_Signal" -> Column(n, Num(0), Num(0), sig)
                     [] c = "Volume" -> Column(n, headVol, FillVolume, lastVol)]]

\* the frames of n bars: with a Volume column, and (one bar) without
SignalFrames(n) ==
    {IndicatorFrame(n, c, r, m[1], m[2], TRUE, hv, lv) :
        c \in Closes, r \in RsiReadings, m \in MacdReadings,
        hv \in HeadVolumes, lv \in LastVolumes}
    \cup
    {IndicatorFrame(n, c, r, m[1], m[2], FALSE, NaN, NaN) :
        c \in IF n = 1 THEN Closes ELSE {}, r \in RsiReadings, m \in MacdReadings}

-----------------------------------------------------------------------------
(* The calls *)

NoCall == [op |-> "none"]

NoRet == [kind |-> "none"]

\* the sidebar as the script first draws it (the model's small values stand
\* for the widgets' defaults)
DefaultSettings ==
    [period |-> "6mo", interval |-> "1d", distance |-> 1, rsi_period |-> 2,
     macd_fast |-> 1, macd_slow |-> 3, macd_signal |-> 3, use_volume |-> TRUE]

NoShow == [symbol |-> "", result |-> NoRet]

\* the symbols the dashboard shows
Symbols == {"SYM"}

\* last_alert of a new session: lines 282-285 give every symbol shown the
\* entry None
NoAlerts == [sym \in Symbols |-> "None"]

Init ==
    /\ pc = "idle" /\ call = NoCall /\ ret = NoRet
    /\ settings = DefaultSettings /\ cache = {} /\ shown = NoShow
    /\ last_alert = NoAlerts /\ dispatched = <<>>

CallGenerateSignals ==
    /\ pc = "idle"
    /\ \E n \in BarCounts, k \in 0..MaxLevels :
       \E df \in SignalFrames(n), lv \in LevelLists(k), uv \in BOOLEAN :
          /\ call' = [op |-> "generate_signals", df |-> df, sr_levels |-> lv,
                      use_volume |-> uv]
          /\ ret' = [kind |-> "ok", signals |-> GenerateSignals(df, lv, uv)]
    /\ pc' = "returned"
    /\ UNCHANGED appVars

Return ==
    /\ pc = "returned"
    /\ pc' = "idle" /\ call' = NoCall /\ ret' = NoRet
    /\ UNCHANGED appVars

NextSignals == CallGenerateSignals \/ Return

SpecSignals == Init /\ [][NextSignals]_vars

-----------------------------------------------------------------------------
(* Claims about generate_signals *)

SignalsReturned == pc = "returned" /\ call.op = "generate_signals"

\* the cell of column c at the last bar; None when the frame lacks the column
LastCell(df, c) == IF c \in Columns(df) THEN df.col[c][NRows(df)] ELSE None

\* the positions of the five most recent levels
Considered(lv) == {i \in 1..Len(lv) : i > Len(lv) - 5}

\* the last-bar volume exceeds the average of the last 20 volumes
AboveAverage20(df) ==
    LET n == NRows(df) IN
    /\ "Volume" \in Columns(df) /\ n >= 20
    /\ \A i \in (n - 19)..n : IsNum(df.col["Volume"][i])
    /\ 20 * df.col["Volume"][n].n > SumCells(df.col["Volume"], n - 19, n)

VolumeCondition(df, uv) == ~uv \/ AboveAverage20(df)

BuyCondition(lvl, df, uv) ==
    /\ lvl.type = "support"
    /\ IsNum(LastCell(df, "RSI")) /\ IsNum(LastCell(df, "MACD"))
    /\ IsNum(LastCell(df, "MACD_Signal"))
    /\ 100 * LastCell(df, "Close").n <= 101 * lvl.price.n
    /\ LastCell(df, "RSI").n < 30
    /\ LastCell(df, "MACD").n > LastCell(df, "MACD_Signal").n
    /\ VolumeCondition(df, uv)

SellCondition(lvl, df, uv) ==
    /\ lvl.type = "resistance"
    /\ IsNum(LastCell(df, "RSI")) /\ IsNum(LastCell(df, "MACD"))
    /\ IsNum(LastCell(df, "MACD_Signal"))
    /\ 100 * LastCell(df, "Close").n >= 99 * lvl.price.n
    /\ LastCell(df, "RSI").n > 70
    /\ LastCell(df, "MACD").n < LastCell(df, "MACD_Signal").n
    /\ VolumeCondition(df, uv)

\* the kinds of the signals the qualifying levels from position i on call
\* for, in the order of the levels
RECURSIVE ExpectedKinds(_, _, _, _)
ExpectedKinds(lv, i, df, uv) ==
    IF i > Len(lv) THEN <<>>
    ELSE (IF i \in Considered(lv) /\ BuyCondition(lv[i], df, uv) THEN <<"BUY">>
          ELSE IF i \in Considered(lv) /\ SellCondition(lv[i], df, uv) THEN <<"SELL">>
          ELSE <<>>)
         \o ExpectedKinds(lv, i + 1, df, uv)

Kinds(signals) == [j \in 1..Len(signals) |-> signals[j].signal]

HoldOf(df) ==
    [signal |-> "HOLD", reason |-> "No strong signal",
     price |-> LastCell(df, "Close"), time |-> df.index[NRows(df)],
     RSI |-> LastCell(df, "RSI"), MACD |-> LastCell(df, "MACD"),
     Volume |-> LastCell(df, "Volume")]

\* C2: generate_signals returns a non-empty list: one entry per qualifying
\* level among the five most recent, in the order of the levels and with
\* repeated kinds kept; when no such level qualifies it is exactly the one
\* HOLD "No strong signal" with the last bar's close, RSI, MACD and volume;
\* a HOLD never stands beside a BUY or SELL; older levels add nothing.
C2_OnePerQualifyingLevel ==
    SignalsReturned =>
      LET want == ExpectedKinds(call.sr_levels, 1, call.df, call.use_volume)
          got == ret.signals
      IN /\ Len(got) >= 1
         /\ want # <<>> => Kinds(got) = want
         /\ want = <<>> => got = <<HoldOf(call.df)>>
         /\ (\E j \in 1..Len(got) : got[j].signal = "HOLD") => Len(got) = 1

\* Both a qualifying and a non-qualifying level among the last five, two
\* signals of the same kind, and a sixth, older level that would qualify.
C2_Witness ==
    /\ SignalsReturned
    /\ Len(call.sr_levels) = 6
    /\ BuyCondition(call.sr_levels[1], call.df, call.use_volume)
    /\ Kinds(ret.signals) = <<"BUY", "BUY">>

C2_HoldWitness ==
    /\ SignalsReturned
    /\ Len(call.sr_levels) = 6
    /\ BuyCondition(call.sr_levels[1], call.df, call.use_volume)
    /\ Kinds(ret.signals) = <<"HOLD">>

CountKind(signals, kind) == Cardinality({j \in 1..Len(signals) : signals[j].signal = kind})

\* C3: among the considered levels, exactly those that are supports with
\* close <= 1.01 * price, RSI < 30, MACD > MACD_Signal and the volume
\* condition (filter off, or last volume above the 20-bar average) yield a
\* BUY, and exactly the resistances with close >= 0.99 * price, RSI > 70,
\* MACD < MACD_Signal and the volume condition yield a SELL; with the filter
\* on and the last volume not above the average the result is a HOLD.
C3_BuySellConditions ==
    SignalsReturned =>
      LET lv == call.sr_levels
          df == call.df
          uv == call.use_volume
      IN /\ CountKind(ret.signals, "BUY")
              = Cardinality({i \in Considered(lv) : BuyCondition(lv[i], df, uv)})
         /\ CountKind(ret.signals, "SELL")
              = Cardinality({i \in Considered(lv) : SellCondition(lv[i], df, uv)})
         /\ (uv /\ ~AboveAverage20(df)) => Kinds(ret.signals) = <<"HOLD">>

\* A level that qualifies but for the volume: 20 bars, the filter on, the last
\* volume below the average, and the answer is HOLD.
C3_Witness ==
    /\ SignalsReturned
    /\ call.use_volume /\ NRows(call.df) >= 20 /\ "Volume" \in Columns(call.df)
    /\ \A i \in 1..NRows(call.df) : IsNum(call.df.col["Volume"][i])
    /\ ~AboveAverage20(call.df)
    /\ \E i \in Considered(call.sr_levels) :
          BuyCondition(call.sr_levels[i], call.df, FALSE)
    /\ Kinds(ret.signals) = <<"HOLD">>

\* The filter on, the last volume above the average, and a BUY and a SELL.
C3_VolumeBuyWitness ==
    /\ SignalsReturned
    /\ call.use_volume /\ AboveAverage20(call.df)
    /\ CountKind(ret.signals, "BUY") >= 1

Undefined(x) == ~IsNum(x)

IndicatorUndefined(df) ==
    \/ Undefined(LastCell(df, "RSI"))
    \/ Undefined(LastCell(df, "MACD"))
    \/ Undefined(LastCell(df, "MACD_Signal"))

\* C9: when RSI, MACD or MACD_Signal is undefined at the last bar (no such
\* column, or a NaN), generate_signals returns exactly one HOLD and no BUY or
\* SELL, and raises nothing.
C9_UndefinedIndicatorHolds ==
    (SignalsReturned /\ IndicatorUndefined(call.df)) =>
        /\ ret.kind = "ok"
        /\ Kinds(ret.signals) = <<"HOLD">>

\* RSI is NaN, everything else would make the support level a BUY.
C9_Witness ==
    /\ SignalsReturned
    /\ LastCell(call.df, "RSI") = NaN
    /\ Gt(LastCell(call.df, "MACD"), LastCell(call.df, "MACD_Signal"))
    /\ ~call.use_volume
    /\ \E i \in Considered(call.sr_levels) :
          /\ call.sr_levels[i].type = "support"
          /\ Le(LastCell(call.df, "Close"), Scale(call.sr_levels[i].price, 101, 100))
    /\ Kinds(ret.signals) = <<"HOLD">>

\* the mean of the available volumes, fewer than 20 bars
MeanOfAvailableExceeded(df) ==
    LET n == NRows(df) IN
    /\ "Volume" \in Columns(df) /\ n < 20
    /\ \A i \in 1..n : IsNum(df.col["Volume"][i])
    /\ n * df.col["Volume"][n].n > SumCells(df.col["Volume"], 1, n)

\* C4 as claimed: with fewer than 20 bars the average is the mean of the
\* available volumes, so with the filter on a level that otherwise qualifies
\* yields a BUY or SELL when the last volume exceeds that mean.
C4_MinOneObservation ==
    (SignalsReturned /\ call.use_volume /\ MeanOfAvailableExceeded(call.df)
       /\ \E i \in Considered(call.sr_levels) :
             \/ BuyCondition(call.sr_levels[i], call.df, FALSE)
             \/ SellCondition(call.sr_levels[i], call.df, FALSE))
    => Kinds(ret.signals) # <<"HOLD">>

\* C4 amended: the average is defined only once 20 volumes are available
\* (and the last 20 are all numbers); with fewer bars it is NaN, so with the
\* filter on no level yields BUY or SELL and the result is the single HOLD.
C4_FullWindowRequired ==
    (SignalsReturned /\ call.use_volume /\ NRows(call.df) < 20)
    => ret.signals = <<HoldOf(call.df)>>

\* 19 bars, the filter on, the last volume above the mean of the 19, a level
\* that qualifies otherwise: HOLD.
C4_Witness ==
    /\ SignalsReturned /\ call.use_volume /\ NRows(call.df) = 19
    /\ MeanOfAvailableExceeded(call.df)
    /\ \E i \in Considered(call.sr_levels) :
          BuyCondition(call.sr_levels[i], call.df, FALSE)
    /\ Kinds(ret.signals) = <<"HOLD">>

-----------------------------------------------------------------------------
(* find_swings and compute_sr_levels.  Positions are counted from 1 here    *)
(* (Python counts from 0); a position into a frame is a row number.         *)

\* pd.to_numeric(x, errors='coerce'): what is no number becomes NaN
ToNumeric(x) == IF IsNum(x) THEN x ELSE NaN

ToNumericSeq(s) == [i \in 1..Len(s) |-> ToNumeric(s[i])]

\* Series.dropna().values: the numbers that are left, closed up
DropNa(s) == SelectSeq(s, IsNum)

\* -lows
Negate(s) == [i \in 1..Len(s) |-> Rat(0 - s[i].n, s[i].d)]

EqNum(x, y) == IsNum(x) /\ IsNum(y) /\ x.n * y.d = y.n * x.d

\* scipy's _local_maxima_1d, the inner scan to the end of a plateau
RECURSIVE PlateauAhead(_, _, _)
PlateauAhead(x, i, i_ahead) ==
    IF i_ahead < Len(x) /\ EqNum(x[i_ahead], x[i])
    THEN PlateauAhead(x, i, i_ahead + 1)
    ELSE i_ahead

\* scipy's _local_maxima_1d from position i on: the midpoints of the plateaus
\* that are higher than both neighbours; the two ends are never maxima
RECURSIVE LocalMaxima(_, _)
LocalMaxima(x, i) ==
    IF i >= Len(x) THEN <<>>
    ELSE IF Lt(x[i - 1], x[i])
         THEN LET i_ahead == PlateauAhead(x, i, i + 1) IN
              IF Lt(x[i_ahead], x[i])
              THEN <<(i + i_ahead - 1) \div 2>> \o LocalMaxima(x, i_ahead + 1)
              ELSE LocalMaxima(x, i + 1)
         ELSE LocalMaxima(x, i + 1)

SeqRange(s) == {s[i] : i \in 1..Len(s)}

\* the order in which _select_by_peak_distance visits the peaks: highest
\* first; numpy's argsort leaves the order of equal heights open, `tie` says
\* whether the later or the earlier of two equal peaks is visited first
Outranks(x, tie, j, k) ==
    \/ Gt(x[j], x[k])
    \/ (EqNum(x[j], x[k]) /\ (IF tie = "later" THEN j >= k ELSE j <= k))

\* scipy's _select_by_peak_distance: a kept peak removes every peak closer
\* than `distance` to it
RECURSIVE SelectByPeakDistance(_, _, _, _, _)
SelectByPeakDistance(todo, keep, x, distance, tie) ==
    IF todo = {} THEN keep
    ELSE LET j == CHOOSE p \in todo : \A q \in todo : Outranks(x, tie, p, q)
             near == {k \in keep : k # j /\ k - j < distance /\ j - k < distance}
         IN SelectByPeakDistance(todo \ {j},
                                 IF j \in keep THEN keep \ near ELSE keep,
                                 x, distance, tie)

\* find_peaks(x, distance=distance)[0]
FindPeaks(x, distance, tie) ==
    LET peaks == LocalMaxima(x, 2)
        keep == SelectByPeakDistance(SeqRange(peaks), SeqRange(peaks), x, distance, tie)
    IN SelectSeq(peaks, LAMBDA p : p \in keep)

\* mutant: find_peaks called without the distance
FindSwingsNoDistance(df, distance, tie) ==
    [peak_idx |-> LocalMaxima(DropNa(ToNumericSeq(df.col["High"])), 2),
     trough_idx |-> LocalMaxima(Negate(DropNa(ToNumericSeq(df.col["Low"]))), 2)]

\* find_swings(df, cfg), cfg.distance >= 1
FindSwings(df, distance, tie) ==
    LET highs == DropNa(ToNumericSeq(df.col["High"]))
        lows == DropNa(ToNumericSeq(df.col["Low"]))
    IN [peak_idx |-> FindPeaks(highs, distance, tie),
        trough_idx |-> FindPeaks(Negate(lows), distance, tie)]

\* list.sort(key=lambda x: x['date']): stable, so x goes behind the levels
\* of the same date
RECURSIVE InsertByDate(_, _)
InsertByDate(sorted, x) ==
    IF sorted = <<>> THEN <<x>>
    ELSE IF sorted[Len(sorted)].date.day <= x.date.day THEN Append(sorted, x)
    ELSE Append(InsertByDate(SubSeq(sorted, 1, Len(sorted) - 1), x), sorted[Len(sorted)])

RECURSIVE SortByDate(_)
SortByDate(s) ==
    IF s = <<>> THEN <<>>
    ELSE InsertByDate(SortByDate(SubSeq(s, 1, Len(s) - 1)), s[Len(s)])

\* compute_sr_levels, lines 31-37: the levels of the given swings
LevelsOf(df, swings) ==
    SortByDate(
      [i \in 1..Len(swings.peak_idx) |->
          [type |-> "resistance", price |-> df.col["High"][swings.peak_idx[i]],
           date |-> df.index[swings.peak_idx[i]]]]
      \o [i \in 1..Len(swings.trough_idx) |->
          [type |-> "support", price |-> df.col["Low"][swings.trough_idx[i]],
           date |-> df.index[swings.trough_idx[i]]]])

\* compute_sr_levels(df, cfg)
ComputeSRLevels(df, distance, tie) == LevelsOf(df, FindSwings(df, distance, tie))

-----------------------------------------------------------------------------
(* Arguments of find_swings and compute_sr_levels *)

MaxSwingBars == 5
MaxLevelBars == 4
MaxDistance == 3

Ties == {"later", "earlier"}

RECURSIVE SeqsOver(_, _)
SeqsOver(S, n) ==
    IF n = 0 THEN {<<>>}
    ELSE {Append(s, v) : s \in SeqsOver(S, n - 1), v \in S}

SwingHighs == {Num(1), Num(2), Num(3)}

SwingLows == {Num(1), Num(2)}

\* frames of n clean bars, for find_swings
SwingFrames(n) ==
    {[index |-> [i \in 1..n |-> Ts(i)], col |-> [High |-> h, Low |-> l]] :
        h \in SeqsOver(SwingHighs, n), l \in SeqsOver(SwingLows, n)}

GapCells == {Num(1), Num(2), NaN}

\* the labels of n rows: rising, or falling
IndexOrders(n) == {[i \in 1..n |-> Ts(i)], [i \in 1..n |-> Ts(n + 1 - i)]}

\* frames of n bars whose High and Low may have gaps, for compute_sr_levels
LevelFrames(n) ==
    {[index |-> ix, col |-> [High |-> h, Low |-> l]] :
        ix \in IndexOrders(n), h \in SeqsOver(GapCells, n),
        l \in SeqsOver(GapCells, n)}

CallFindSwings ==
    /\ pc = "idle"
    /\ \E n \in 0..MaxSwingBars :
       \E df \in SwingFrames(n), dist \in 1..MaxDistance, tie \in Ties :
          /\ call' = [op |-> "find_swings", df |-> df, distance |-> dist, tie |-> tie]
          /\ ret' = [kind |-> "ok", swings |-> FindSwings(df, dist, tie)]
    /\ pc' = "returned"
    /\ UNCHANGED appVars

CallComputeSRLevels ==
    /\ pc = "idle"
    /\ \E n \in 0..MaxLevelBars :
       \E df \in LevelFrames(n), dist \in 1..MaxDistance :
          /\ call' = [op |-> "compute_sr_levels", df |-> df, distance |-> dist,
                      tie |-> "later"]
          /\ ret' = [kind |-> "ok", swings |-> FindSwings(df, dist, "later"),
                     levels |-> ComputeSRLevels(df, dist, "later")]
    /\ pc' = "returned"
    /\ UNCHANGED appVars

NextSwings == CallFindSwings \/ CallComputeSRLevels \/ Return

SpecSwings == Init /\ [][NextSwings]_vars

-----------------------------------------------------------------------------
(* Claims about find_swings and compute_sr_levels *)

SwingsReturned ==
    pc = "returned" /\ call.op \in {"find_swings", "compute_sr_levels"}

\* no two of the positions are closer than d
Spaced(idx, d) ==
    \A i, j \in 1..Len(idx) : i < j => idx[j] - idx[i] >= d

\* C7 as claimed: no index is returned both as a peak and as a trough, and
\* no two peaks and no two troughs are closer than min_separation.
C7_DisjointAndSpaced ==
    SwingsReturned =>
        /\ SeqRange(ret.swings.peak_idx) \cap SeqRange(ret.swings.trough_idx) = {}
        /\ Spaced(ret.swings.peak_idx, call.distance)
        /\ Spaced(ret.swings.trough_idx, call.distance)

\* C7 amended: no two returned peaks and no two returned troughs are closer
\* than min_separation (>= 1) bars; a bar whose high is a peak and whose low
\* is a trough is returned in both lists.
C7_Spaced ==
    SwingsReturned =>
        /\ Spaced(ret.swings.peak_idx, call.distance)
        /\ Spaced(ret.swings.trough_idx, call.distance)

\* Two local maxima of the highs closer than the distance, one of them
\* dropped, and the kept peak is a trough of the lows as well.
C7_Witness ==
    /\ SwingsReturned /\ call.op = "find_swings"
    /\ ~Spaced(LocalMaxima(call.df.col["High"], 2), call.distance)
    /\ Len(ret.swings.peak_idx) = 1
    /\ ret.swings.peak_idx[1] \in SeqRange(ret.swings.trough_idx)

LevelsReturned == pc = "returned" /\ call.op = "compute_sr_levels"

\* the rows of the frame whose cell in the column is a number: the k-th of
\* them is the bar behind position k of the closed-up array
NumericRows(col) ==
    SelectSeq([i \in 1..Len(col) |-> i], LAMBDA r : IsNum(ToNumeric(col[r])))

SortedByDate(levels) ==
    \A i, j \in 1..Len(levels) : i < j => levels[i].date.day <= levels[j].date.day

\* C10 as claimed: one level per swing, none merged; a peak gives a
\* resistance with the High and the time of the bar at which it was detected,
\* a trough a support with the Low and time of its bar, also when missing
\* values were dropped before detection; the list is sorted by time.
C10_LevelsAtSwingBars ==
    LevelsReturned =>
      LET df == call.df
          hrows == NumericRows(df.col["High"])
          lrows == NumericRows(df.col["Low"])
          pk == ret.swings.peak_idx
          tr == ret.swings.trough_idx
      IN /\ Len(ret.levels) = Len(pk) + Len(tr)
         /\ SeqRange(ret.levels) =
               {[type |-> "resistance", price |-> df.col["High"][hrows[pk[i]]],
                 date |-> df.index[hrows[pk[i]]]] : i \in 1..Len(pk)}
               \cup
               {[type |-> "support", price |-> df.col["Low"][lrows[tr[i]]],
                 date |-> df.index[lrows[tr[i]]]] : i \in 1..Len(tr)}
         /\ SortedByDate(ret.levels)

\* A missing High before the only peak: the level returned carries the time
\* of the bar before the one whose high is the peak.
C10_Witness ==
    /\ LevelsReturned
    /\ Len(ret.swings.peak_idx) = 1 /\ Len(ret.swings.trough_idx) = 0
    /\ Len(ret.levels) = 1
    /\ LET hrows == NumericRows(call.df.col["High"])
       IN /\ Len(hrows) < NRows(call.df)
          /\ ret.levels[1].date # call.df.index[hrows[ret.swings.peak_idx[1]]]

-----------------------------------------------------------------------------
(* Exact arithmetic on the numbers n/d, d > 0, kept in lowest terms *)

Abs(i) == IF i < 0 THEN 0 - i ELSE i

RECURSIVE Gcd(_, _)
Gcd(a, b) == IF b = 0 THEN a ELSE Gcd(b, a % b)

Norm(a, b) ==
    LET g == Gcd(Abs(a), Abs(b))
        sgn == IF b < 0 THEN 0 - 1 ELSE 1
    IN IF g = 0 THEN Rat(0, 1) ELSE Rat(sgn * (a \div g), sgn * (b \div g))

RAdd(x, y) == Norm(x.n * y.d + y.n * x.d, x.d * y.d)

RSub(x, y) == Norm(x.n * y.d - y.n * x.d, x.d * y.d)

RMul(x, y) == Norm(x.n * y.n, x.d * y.d)

\* x / y with y # 0
RDiv(x, y) == Norm(x.n * y.d, x.d * y.n)

-----------------------------------------------------------------------------
(* compute_rsi and compute_macd, on a series of numbers *)

\* 1e-6
EpsDen == 1000000

\* series.diff(): the first delta is missing
Diff(series) ==
    [t \in 1..Len(series) |-> IF t = 1 THEN NaN ELSE RSub(series[t], series[t - 1])]

\* delta.where(delta > 0, 0)
Gains(delta) ==
    [t \in 1..Len(delta) |-> IF Gt(delta[t], Num(0)) THEN delta[t] ELSE Num(0)]

\* mutant: the sign of the falls is kept
LossesSigned(delta) ==
    [t \in 1..Len(delta) |-> IF Lt(delta[t], Num(0)) THEN delta[t] ELSE Num(0)]

\* -delta.where(delta < 0, 0)
Losses(delta) ==
    [t \in 1..Len(delta) |->
        IF Lt(delta[t], Num(0)) THEN RSub(Num(0), delta[t]) ELSE Num(0)]

RECURSIVE RSum(_, _, _)
RSum(s, lo, hi) ==
    IF lo > hi THEN Num(0)
    ELSE IF lo = hi THEN s[lo]
    ELSE LET mid == (lo + hi) \div 2
         IN RAdd(RSum(s, lo, mid), RSum(s, mid + 1, hi))

\* s.rolling(window=period, min_periods=1).mean() of a series without gaps
RollingMeanMinOne(s, period) ==
    [t \in 1..Len(s) |->
        LET lo == IF t - period + 1 < 1 THEN 1 ELSE t - period + 1
        IN RDiv(RSum(s, lo, t), Num(t - lo + 1))]

\* compute_rsi(series, period)
ComputeRSI(series, period) ==
    LET delta == Diff(series)
        gain == RollingMeanMinOne(Gains(delta), period)
        loss == RollingMeanMinOne(Losses(delta), period)
    IN [t \in 1..Len(series) |->
          LET rs == RDiv(gain[t], RAdd(loss[t], Rat(1, EpsDen)))
          IN RSub(Num(100), RDiv(Num(100), RAdd(Num(1), rs)))]

\* series.ewm(span=span, adjust=False).mean() up to bar t:
\* y[1] = x[1], y[t] = (1 - a) * y[t-1] + a * x[t] with a = 2 / (span + 1)
RECURSIVE EwmAt(_, _, _)
EwmAt(series, span, t) ==
    IF t = 1 THEN series[1]
    ELSE LET a == Norm(2, span + 1)
         IN CHOOSE y \in {RAdd(RMul(RSub(Num(1), a), prev), RMul(a, x)) :
                             prev \in {EwmAt(series, span, t - 1)},
                             x \in {series[t]}} : TRUE

Ewm(series, span) == [t \in 1..Len(series) |-> EwmAt(series, span, t)]

\* compute_macd(series, fast, slow, signal): <<macd, signal_line>>
ComputeMACD(series, fast, slow, signal) ==
    LET ema_fast == Ewm(series, fast)
        ema_slow == Ewm(series, slow)
        macd == [t \in 1..Len(series) |-> RSub(ema_fast[t], ema_slow[t])]
    IN <<macd, Ewm(macd, signal)>>

-----------------------------------------------------------------------------
(* Column names.  A Python string is the tuple of its characters, so that   *)
(* lower() and the substring test "in" are computed.                        *)

Lower(ch) ==
    CASE ch = "A" -> "a" [] ch = "B" -> "b" [] ch = "C" -> "c" [] ch = "D" -> "d"
      [] ch = "E" -> "e" [] ch = "F" -> "f" [] ch = "G" -> "g" [] ch = "H" -> "h"
      [] ch = "I" -> "i" [] ch = "J" -> "j" [] ch = "K" -> "k" [] ch = "L" -> "l"
      [] ch = "M" -> "m" [] ch = "N" -> "n" [] ch = "O" -> "o" [] ch = "P" -> "p"
      [] ch = "Q" -> "q" [] ch = "R" -> "r" [] ch = "S" -> "s" [] ch = "T" -> "t"
      [] ch = "U" -> "u" [] ch = "V" -> "v" [] ch = "W" -> "w" [] ch = "X" -> "x"
      [] ch = "Y" -> "y" [] ch = "Z" -> "z" [] OTHER -> ch

\* str.lower()
LowerStr(str) == [i \in 1..Len(str) |-> Lower(str[i])]

\* sub in str
Contains(str, sub) ==
    \E i \in 1..(Len(str) - Len(sub) + 1) : SubSeq(str, i, i + Len(sub) - 1) = sub

\* '_'.join(levels)
RECURSIVE JoinLevels(_)
JoinLevels(levels) ==
    IF Len(levels) = 1 THEN levels[1]
    ELSE levels[1] \o <<"_">> \o JoinLevels(Tail(levels))

\* lines 156-162: the canonical name a column is renamed to, "" for none
CanonicalOf(col) ==
    LET col_lower == LowerStr(col) IN
    IF Contains(col_lower, <<"o", "p", "e", "n">>) THEN "Open"
    ELSE IF Contains(col_lower, <<"h", "i", "g", "h">>) THEN "High"
    ELSE IF Contains(col_lower, <<"l", "o", "w">>) THEN "Low"
    ELSE IF Contains(col_lower, <<"c", "l", "o", "s", "e">>) THEN "Close"
    ELSE IF Contains(col_lower, <<"v", "o", "l", "u", "m", "e">>) THEN "Volume"
    ELSE ""

Required == {"High", "Low", "Open", "Close", "Volume"}

-----------------------------------------------------------------------------
(* Raw tables, as read_csv, yf.download or the caller hands them in:        *)
(*   multi     the columns are a MultiIndex                                 *)
(*   datetime  the index is a DatetimeIndex                                 *)
(*   index     the row labels: timestamps when datetime, else texts         *)
(*   columns   per column [levels |-> its name (one string per level),      *)
(*             text |-> the (flattened) name, cells |-> its cells]          *)
(* [k |-> "text", day |-> d] is a label or a Date cell that spells day d.    *)

\* pd.to_datetime of a label
ToDatetime(x) == Ts(x.day)

\* lines 152-163: the names of the columns after flattening and renaming
RenamedColumns(tbl) ==
    [i \in 1..Len(tbl.columns) |->
        LET name == IF tbl.multi THEN JoinLevels(tbl.columns[i].levels)
                    ELSE tbl.columns[i].levels[1]
        IN IF CanonicalOf(name) # "" THEN CanonicalOf(name) ELSE tbl.columns[i].text]

\* the positions of the columns that carry the name
Named(names, c) == {i \in 1..Len(names) : names[i] = c}

\* DataFrame.empty
IsEmpty(tbl) == Len(tbl.index) = 0 \/ Len(tbl.columns) = 0

\* mutant: only a missing Close drops the row
KeptRowsCloseOnly(nrows, numeric) ==
    SelectSeq([r \in 1..nrows |-> r], LAMBDA r : IsNum(numeric["Close"][r]))

\* lines 169-171: the rows that dropna keeps, given the frame's columns by name
KeptRows(nrows, numeric) ==
    SelectSeq([r \in 1..nrows |-> r],
              LAMBDA r : \A c \in Required : IsNum(numeric[c][r]))

Pick(cells, rows) == [i \in 1..Len(rows) |-> cells[rows[i]]]

RECURSIVE InsertDay(_, _)
InsertDay(sorted, x) ==
    IF sorted = <<>> THEN <<x>>
    ELSE IF sorted[Len(sorted)].day <= x.day THEN Append(sorted, x)
    ELSE Append(InsertDay(SubSeq(sorted, 1, Len(sorted) - 1), x), sorted[Len(sorted)])

RECURSIVE SortDays(_)
SortDays(s) ==
    IF s = <<>> THEN <<>>
    ELSE InsertDay(SortDays(SubSeq(s, 1, Len(s) - 1)), s[Len(s)])

\* mutant: the index is sorted
NormalIndexSorted(tbl, names, rows) ==
    SortDays(IF tbl.datetime THEN Pick(tbl.index, rows)
             ELSE IF Named(names, "Date") # {}
                  THEN LET i == CHOOSE j \in Named(names, "Date") : TRUE
                       IN [k \in 1..Len(rows) |-> ToDatetime(tbl.columns[i].cells[rows[k]])]
                  ELSE [k \in 1..Len(rows) |-> ToDatetime(tbl.index[rows[k]])])

\* lines 173-178: the index of the normalized frame, for the kept rows
NormalIndex(tbl, names, rows) ==
    IF tbl.datetime THEN Pick(tbl.index, rows)
    ELSE IF Named(names, "Date") # {}
         THEN LET i == CHOOSE j \in Named(names, "Date") : TRUE
              IN [k \in 1..Len(rows) |-> ToDatetime(tbl.columns[i].cells[rows[k]])]
         ELSE [k \in 1..Len(rows) |-> ToDatetime(tbl.index[rows[k]])]

\* lines 151-178 of analyze: the normalized frame, or the exception raised.
\* pd.to_numeric of the two columns that a duplicated name selects raises a
\* TypeError.
Normalize(tbl) ==
    LET names == RenamedColumns(tbl) IN
    IF ~(Required \subseteq SeqRange(names)) THEN [kind |-> "SchemaError"]
    ELSE IF \E c \in Required : Cardinality(Named(names, c)) > 1
         THEN [kind |-> "TypeError"]
    ELSE
      LET at(c) == CHOOSE i \in Named(names, c) : TRUE
          numeric == [c \in Required |-> ToNumericSeq(tbl.columns[at(c)].cells)]
          rows == KeptRows(Len(tbl.index), numeric)
          others == (SeqRange(names) \ Required)
                       \ (IF tbl.datetime THEN {} ELSE {"Date"})
      IN [kind |-> "ok",
          data |-> [index |-> NormalIndex(tbl, names, rows),
                    col |-> [c \in Required \cup others |->
                               IF c \in Required THEN Pick(numeric[c], rows)
                               ELSE Pick(tbl.columns[at(c)].cells, rows)]]]

\* lines 181-182: the frame with the three indicator columns
WithIndicators(data, rsi_period, fast, slow, signal) ==
    LET macd == ComputeMACD(data.col["Close"], fast, slow, signal)
        rsi == ComputeRSI(data.col["Close"], rsi_period)
    IN [index |-> data.index,
        col |-> [c \in Columns(data) \cup {"RSI", "MACD", "MACD_Signal"} |->
                   CASE c = "RSI" -> rsi
                     [] c = "MACD" -> macd[1]
                     [] c = "MACD_Signal" -> macd[2]
                     [] OTHER -> data.col[c]]]

\* mutant: more than one specifier is refused
FetchDataExactlyOne(df, csv_path, symbol, file, fetched) ==
    IF Cardinality({i \in 1..3 : <<df, csv_path, symbol>>[i] # None}) # 1
    THEN [kind |-> "InputError"]
    ELSE IF df # None THEN [kind |-> "ok", data |-> df.table]
    ELSE IF csv_path # None /\ csv_path.path # ""
         THEN [kind |-> "ok", data |-> file]
    ELSE IF symbol # None /\ ~IsEmpty(fetched)
         THEN [kind |-> "ok", data |-> fetched]
    ELSE [kind |-> "InputError"]

\* lines 140-149: the table analyze works on, or the ValueError it raises.
\* `file` is what read_csv(csv_path) yields, `fetched` what yf.download does.
\* csv_path is "" or a path; None is the record None.
FetchData(df, csv_path, symbol, file, fetched) ==
    IF df # None THEN [kind |-> "ok", data |-> df.table]
    ELSE IF csv_path # None /\ csv_path.path # ""
         THEN [kind |-> "ok", data |-> file]
    ELSE IF symbol # None
         THEN IF IsEmpty(fetched) THEN [kind |-> "InputError"]
              ELSE [kind |-> "ok", data |-> fetched]
    ELSE [kind |-> "InputError"]

\* lines 180-184 on the normalized frame; df.iloc[-1] of a frame without rows
\* raises an IndexError
AnalyzeData(data, a) ==
    LET sr == ComputeSRLevels(data, a.distance, "later")
        enriched == WithIndicators(data, a.rsi_period, a.macd_fast, a.macd_slow,
                                   a.macd_signal)
    IN IF NRows(enriched) = 0 THEN [kind |-> "IndexError"]
       ELSE [kind |-> "ok", levels |-> sr, data |-> enriched,
             signals |-> GenerateSignals(enriched, sr, a.use_volume)]

\* analyze(symbol, period, interval, csv_path, df, cfg, ...)
Analyze(a, file, fetched) ==
    LET got == FetchData(a.df, a.csv_path, a.symbol, file, fetched) IN
    IF got.kind # "ok" THEN [kind |-> got.kind]
    ELSE LET norm == Normalize(got.data) IN
         IF norm.kind # "ok" THEN [kind |-> norm.kind]
         ELSE AnalyzeData(norm.data, a)

-----------------------------------------------------------------------------
(* Arguments of analyze *)

MaxRows == 3

\* a cell that holds a text which is no number
Text == [k |-> "str", n |-> 0, d |-> 1]

TextDay(d) == [k |-> "text", day |-> d]

BarLevels == {1, 2}

BarFlaws == {"none", "nan", "text"}

\* the bars of a table: per row a price level p (open = low = close = p,
\* high = p + 1, volume 1) and a flaw: none, the close missing, or the volume
\* a text
BarSeqs(n) == SeqsOver([p : BarLevels, flaw : BarFlaws], n)

\* the days of n rows: rising, falling, or in pairs of equal days
DayOrders(n) ==
    {[i \in 1..n |-> i], [i \in 1..n |-> n + 1 - i], [i \in 1..n |-> (i + 1) \div 2]}

CellsOf(bars, days) ==
    [Open |-> [i \in 1..Len(bars) |-> Num(bars[i].p)],
     High |-> [i \in 1..Len(bars) |-> Num(bars[i].p + 1)],
     Low |-> [i \in 1..Len(bars) |-> Num(bars[i].p)],
     Close |-> [i \in 1..Len(bars) |->
                  IF bars[i].flaw = "nan" THEN NaN ELSE Num(bars[i].p)],
     Volume |-> [i \in 1..Len(bars) |->
                   IF bars[i].flaw = "text" THEN Text ELSE Num(1)],
     Date |-> [i \in 1..Len(bars) |-> TextDay(days[i])]]

Layouts == {"plain", "lower", "ticker", "dated", "novolume", "adjclose"}

ColumnsOf(layout, cells) ==
    CASE layout = "plain" ->
          <<[levels |-> <<<<"O", "p", "e", "n">>>>, text |-> "Open", cells |-> cells.Open],
          [levels |-> <<<<"H", "i", "g", "h">>>>, text |-> "High", cells |-> cells.High],
          [levels |-> <<<<"L", "o", "w">>>>, text |-> "Low", cells |-> cells.Low],
          [levels |-> <<<<"C", "l", "o", "s", "e">>>>, text |-> "Close", cells |-> cells.Close],
          [levels |-> <<<<"V", "o", "l", "u", "m", "e">>>>, text |-> "Volume", cells |-> cells.Volume]>>
      [] layout = "lower" ->
          <<[levels |-> <<<<"o", "p", "e", "n">>>>, text |-> "open", cells |-> cells.Open],
          [levels |-> <<<<"h", "i", "g", "h">>>>, text |-> "high", cells |-> cells.High],
          [levels |-> <<<<"l", "o", "w">>>>, text |-> "low", cells |-> cells.Low],
          [levels |-> <<<<"c", "l", "o", "s", "e">>>>, text |-> "close", cells |-> cells.Close],
          [levels |-> <<<<"v", "o", "l", "u", "m", "e">>>>, text |-> "volume", cells |-> cells.Volume]>>
      [] layout = "ticker" ->
          <<[levels |-> <<<<"C", "l", "o", "s", "e">>, <<"S", "Y", "M">>>>, text |-> "Close_SYM", cells |-> cells.Close],
          [levels |-> <<<<"H", "i", "g", "h">>, <<"S", "Y", "M">>>>, text |-> "High_SYM", cells |-> cells.High],
          [levels |-> <<<<"L", "o", "w">>, <<"S", "Y", "M">>>>, text |-> "Low_SYM", cells |-> cells.Low],
          [levels |-> <<<<"O", "p", "e", "n">>, <<"S", "Y", "M">>>>, text |-> "Open_SYM", cells |-> cells.Open],
          [levels |-> <<<<"V", "o", "l", "u", "m", "e">>, <<"S", "Y", "M">>>>, text |-> "Volume_SYM", cells |-> cells.Volume]>>
      [] layout = "dated" ->
          <<[levels |-> <<<<"D", "a", "t", "e">>>>, text |-> "Date", cells |-> cells.Date],
          [levels |-> <<<<"O", "p", "e", "n">>>>, text |-> "Open", cells |-> cells.Open],
          [levels |-> <<<<"H", "i", "g", "h">>>>, text |-> "High", cells |-> cells.High],
          [levels |-> <<<<"L", "o", "w">>>>, text |-> "Low", cells |-> cells.Low],
          [levels |-> <<<<"C", "l", "o", "s", "e">>>>, text |-> "Close", cells |-> cells.Close],
          [levels |-> <<<<"V", "o", "l", "u", "m", "e">>>>, text |-> "Volume", cells |-> cells.Volume]>>
      [] layout = "novolume" ->
          <<[levels |-> <<<<"O", "p", "e", "n">>>>, text |-> "Open", cells |-> cells.Open],
          [levels |-> <<<<"H", "i", "g", "h">>>>, text |-> "High", cells |-> cells.High],
          [levels |-> <<<<"L", "o", "w">>>>, text |-> "Low", cells |-> cells.Low],
          [levels |-> <<<<"C", "l", "o", "s", "e">>>>, text |-> "Close", cells |-> cells.Close]>>
      [] layout = "adjclose" ->
          <<[levels |-> <<<<"O", "p", "e", "n">>>>, text |-> "Open", cells |-> cells.Open],
          [levels |-> <<<<"H", "i", "g", "h">>>>, text |-> "High", cells |-> cells.High],
          [levels |-> <<<<"L", "o", "w">>>>, text |-> "Low", cells |-> cells.Low],
          [levels |-> <<<<"C", "l", "o", "s", "e">>>>, text |-> "Close", cells |-> cells.Close],
          [levels |-> <<<<"A", "d", "j", " ", "C", "l", "o", "s", "e">>>>, text |-> "Adj Close", cells |-> cells.Close],
          [levels |-> <<<<"V", "o", "l", "u", "m", "e">>>>, text |-> "Volume", cells |-> cells.Volume]>>

\* the table of the given layout, index kind, days and bars; an index that
\* is no DatetimeIndex spells the days as texts, unless a Date column does
RawTable(layout, datetime, days, bars) ==
    [multi |-> layout = "ticker",
     datetime |-> datetime,
     index |-> [i \in 1..Len(bars) |->
                  IF datetime THEN Ts(days[i])
                  ELSE IF layout = "dated" THEN TextDay(i) ELSE TextDay(days[i])],
     columns |-> ColumnsOf(layout, CellsOf(bars, days))]

\* the tables of n rows
DfTables(n) ==
    {RawTable(layout, dt, days, bars) :
        layout \in Layouts, dt \in BOOLEAN, days \in DayOrders(n),
        bars \in BarSeqs(n)}

CleanBars == <<[p |-> 1, flaw |-> "none"], [p |-> 2, flaw |-> "none"]>>

\* what read_csv yields for the path the model passes
FileTable == RawTable("dated", FALSE, <<1, 2>>, CleanBars)

\* what yf.download yields: a table, or a table without rows
FetchTable == RawTable("ticker", TRUE, <<1, 2>>, CleanBars)

EmptyFetch == RawTable("ticker", TRUE, <<>>, <<>>)

CsvArgs == {None, [path |-> ""], [path |-> "prices.csv"]}

\* the symbol argument with what the lookup would return
SymbolArgs ==
    {<<None, FetchTable>>, <<[name |-> "SYM"], FetchTable>>,
     <<[name |-> "SYM"], EmptyFetch>>}

\* <<df, csv_path, <<symbol, fetched>>>>: without a df, every combination
\* of the other two; with a df of n rows, none of them or both
SourceArgs(n) ==
    {<<None, csv, sym>> : csv \in CsvArgs, sym \in SymbolArgs}
    \cup {<<[table |-> t], o[1], o[2]>> :
             t \in DfTables(n),
             o \in {<<None, <<None, FetchTable>>>>,
                    <<None, <<[name |-> "SYM"], FetchTable>>>>,
                    <<[path |-> "prices.csv"], <<[name |-> "SYM"], EmptyFetch>>>>}}

CallAnalyze ==
    /\ pc = "idle"
    /\ \E n \in 0..MaxRows : \E src \in SourceArgs(n) :
          LET a == [op |-> "analyze", df |-> src[1], csv_path |-> src[2],
                    symbol |-> src[3][1], fetched |-> src[3][2],
                    distance |-> 1, rsi_period |-> 2,
                    macd_fast |-> 1, macd_slow |-> 3, macd_signal |-> 3,
                    use_volume |-> FALSE]
          IN /\ call' = a
             /\ ret' = Analyze(a, FileTable, a.fetched)
    /\ pc' = "returned"
    /\ UNCHANGED appVars

NextAnalyze == CallAnalyze \/ Return

SpecAnalyze == Init /\ [][NextAnalyze]_vars

-----------------------------------------------------------------------------
(* Claims about analyze *)

AnalyzeReturned == pc = "returned" /\ call.op = "analyze"

\* how many of df, csv_path and symbol the call provides
Provided(a) ==
    Cardinality({i \in 1..3 : <<a.df, a.csv_path, a.symbol>>[i] # None})

\* C1 as claimed: a call that provides none or more than one of df, csv_path
\* and symbol fails with an input error, and so does a symbol lookup that
\* returns an empty table.
C1_ExactlyOneSource ==
    AnalyzeReturned =>
        /\ Provided(call) # 1 => ret.kind = "InputError"
        /\ (Provided(call) = 1 /\ call.symbol # None /\ IsEmpty(call.fetched))
              => ret.kind = "InputError"

\* the call with every specifier but the given one left out
OnlyDf(a) == [a EXCEPT !.csv_path = None, !.symbol = None]

OnlyCsv(a) == [a EXCEPT !.df = None, !.symbol = None]

\* C1 amended: analyze takes the first specifier provided, in the order df,
\* csv_path, symbol, and ignores the others.  It fails with an input error
\* exactly when df is None, csv_path is None or empty, and the symbol is None
\* or its lookup returns an empty table.  A call that provides more than one
\* specifier returns what the call with the first of them alone returns.
C1_FirstProvidedSource ==
    AnalyzeReturned =>
        /\ ret.kind = "InputError" <=>
              /\ call.df = None
              /\ (call.csv_path = None \/ call.csv_path.path = "")
              /\ (call.symbol = None \/ IsEmpty(call.fetched))
        /\ call.df # None => ret = Analyze(OnlyDf(call), FileTable, call.fetched)
        /\ (call.df = None /\ call.csv_path # None /\ call.csv_path.path # "")
              => ret = Analyze(OnlyCsv(call), FileTable, call.fetched)

\* df and symbol are both provided, the lookup would be empty, and the call
\* succeeds on the df.
C1_Witness ==
    /\ AnalyzeReturned
    /\ call.df # None /\ call.symbol # None /\ IsEmpty(call.fetched)
    /\ ret.kind = "ok"

C1_NoSourceWitness ==
    /\ AnalyzeReturned /\ call.df = None /\ call.csv_path # None
    /\ call.symbol = None /\ ret.kind = "InputError"

\* the table the call works on, when it has one
UsedTable(a) ==
    IF a.df # None THEN a.df.table
    ELSE IF a.csv_path # None /\ a.csv_path.path # "" THEN FileTable
    ELSE a.fetched

HasData(a) ==
    \/ a.df # None
    \/ (a.csv_path # None /\ a.csv_path.path # "")
    \/ (a.symbol # None /\ ~IsEmpty(a.fetched))

\* C5 as claimed: analyze ends with the complete triple (levels, the series
\* with RSI, MACD and MACD_Signal, a non-empty signal list), with InputError
\* or with SchemaError, the latter whenever one of the five fields is absent
\* after column resolution; no other failure, also when every row is dropped.
C5_ThreeOutcomes ==
    AnalyzeReturned =>
        /\ ret.kind \in {"ok", "InputError", "SchemaError"}
        /\ ret.kind = "ok" =>
              /\ {"RSI", "MACD", "MACD_Signal"} \subseteq Columns(ret.data)
              /\ Len(ret.signals) >= 1
        /\ (HasData(call)
              /\ ~(Required \subseteq SeqRange(RenamedColumns(UsedTable(call)))))
           => ret.kind = "SchemaError"

\* A table with the five fields of which normalization keeps no row: the
\* call ends with an IndexError.
C5_Witness ==
    /\ AnalyzeReturned /\ HasData(call)
    /\ Required \subseteq SeqRange(RenamedColumns(UsedTable(call)))
    /\ Len(UsedTable(call).index) > 0
    /\ ret.kind = "IndexError"

\* A table with an "Adj Close" beside its "Close": both are renamed Close
\* and the call ends with a TypeError.
C5_TypeErrorWitness ==
    /\ AnalyzeReturned /\ HasData(call) /\ ret.kind = "TypeError"

\* the timestamp of row r of a raw table
RowStamp(tbl, r) ==
    IF tbl.datetime THEN tbl.index[r].day
    ELSE IF \E i \in 1..Len(tbl.columns) : tbl.columns[i].text = "Date"
         THEN LET i == CHOOSE j \in 1..Len(tbl.columns) : tbl.columns[j].text = "Date"
              IN tbl.columns[i].cells[r].day
         ELSE tbl.index[r].day

\* the rows of a raw table whose five canonical cells are all numbers
ValidRows(tbl) ==
    LET names == RenamedColumns(tbl) IN
    SelectSeq([r \in 1..Len(tbl.index) |-> r],
              LAMBDA r : \A i \in 1..Len(names) :
                            names[i] \in Required => IsNum(tbl.columns[i].cells[r]))

StrictlyIncreasing(days) ==
    \A i, j \in 1..Len(days) : i < j => days[i] < days[j]

Days(index) == [i \in 1..Len(index) |-> index[i].day]

\* C6 as claimed: the series analyze returns is strictly increasing by
\* timestamp, without duplicates, whatever the order of the input rows.
C6_StrictlyIncreasing ==
    (AnalyzeReturned /\ ret.kind = "ok") => StrictlyIncreasing(Days(ret.data.index))

\* C6 amended: analyze neither sorts the rows nor removes repeated
\* timestamps: the returned series holds the timestamps of the kept rows in
\* the order of the input, so it is strictly increasing exactly when the
\* kept rows of the input already are.
C6_InputOrderKept ==
    (AnalyzeReturned /\ ret.kind = "ok") =>
        LET tbl == UsedTable(call)
            rows == ValidRows(tbl)
            stamps == [i \in 1..Len(rows) |-> RowStamp(tbl, rows[i])]
        IN /\ Days(ret.data.index) = stamps
           /\ StrictlyIncreasing(Days(ret.data.index)) <=> StrictlyIncreasing(stamps)

\* Rows given latest first, one of them dropped, and the series returned
\* is not increasing.
C6_Witness ==
    /\ AnalyzeReturned /\ ret.kind = "ok"
    /\ NRows(ret.data) = 2 /\ Len(UsedTable(call).index) = 3
    /\ ret.data.index[1].day > ret.data.index[2].day

\* the position, among the columns of a raw table, of each canonical field
FieldAt(tbl) ==
    LET names == RenamedColumns(tbl)
    IN [c \in Required |-> CHOOSE j \in 1..Len(names) : names[j] = c]

\* the rows with a canonical cell that is missing or no number; at = FieldAt(tbl)
FlawedRows(tbl, at) ==
    {r \in 1..Len(tbl.index) :
        \E c \in Required : ~IsNum(tbl.columns[at[c]].cells[r])}

\* C11: normalization drops exactly the rows in which one of Open, High,
\* Low, Close, Volume is missing or no number: the rows whose five fields
\* are all numbers are kept, in their order and with their values, so no
\* more rows are dropped than have a missing field.  (A call that ends with
\* an IndexError had no such row.)
C11_DropsExactlyFlawedRows ==
    (AnalyzeReturned /\ ret.kind \in {"ok", "IndexError"}) =>
        \A tbl \in {UsedTable(call)} : \A at \in {FieldAt(tbl)} :
        \A flawed \in {FlawedRows(tbl, at)} :
        \A rows \in {SelectSeq([r \in 1..Len(tbl.index) |-> r],
                                LAMBDA r : r \notin flawed)} :
           /\ ret.kind = "IndexError" => rows = <<>>
           /\ ret.kind = "ok" =>
                 /\ NRows(ret.data) = Len(rows)
                 /\ Len(tbl.index) - NRows(ret.data) <= Cardinality(flawed)
                 /\ \A c \in Required :
                       ret.data.col[c] =
                          [k \in 1..Len(rows) |-> tbl.columns[at[c]].cells[rows[k]]]

\* Three rows of which the second has a text for its volume: the first and
\* the third are returned.
C11_Witness ==
    /\ AnalyzeReturned /\ ret.kind = "ok"
    /\ Len(UsedTable(call).index) = 3
    /\ NRows(ret.data) = 2
    /\ LET tbl == UsedTable(call)
           at == FieldAt(tbl)
       IN /\ FlawedRows(tbl, at) = {2}
          /\ ~IsNum(tbl.columns[at["Volume"]].cells[2])

-----------------------------------------------------------------------------
(* The dashboard: get_analysis, memoized by st.cache_data, as show_stock
   calls it on every run of the script *)

HomeSymbol == "SYM"

Periods == {"1mo", "3mo", "6mo", "1y"}

Distances == {1, 3}

MonthBars ==
    <<[p |-> 1, flaw |-> "none"], [p |-> 2, flaw |-> "none"],
      [p |-> 1, flaw |-> "none"]>>

HalfYearBars ==
    <<[p |-> 1, flaw |-> "none"], [p |-> 3, flaw |-> "none"],
      [p |-> 1, flaw |-> "none"], [p |-> 2, flaw |-> "none"],
      [p |-> 1, flaw |-> "none"]>>

\* what yf.download(symbol, period=period, interval=interval) yields while
\* the session lasts: the longer period holds more bars
\* prices that end near two supports with the RSI low and the MACD above
\* its signal line
QuarterBars ==
    <<[p |-> 3, flaw |-> "none"], [p |-> 1, flaw |-> "none"],
      [p |-> 2, flaw |-> "none"], [p |-> 1, flaw |-> "none"],
      [p |-> 2, flaw |-> "none"], [p |-> 1, flaw |-> "none"],
      [p |-> 1, flaw |-> "none"]>>

\* prices that end near a resistance with the RSI high and the MACD below
\* its signal line
YearBars ==
    <<[p |-> 1, flaw |-> "none"], [p |-> 2, flaw |-> "none"],
      [p |-> 1, flaw |-> "none"], [p |-> 2, flaw |-> "none"],
      [p |-> 3, flaw |-> "none"], [p |-> 3, flaw |-> "none"]>>

Download(symbol, period, interval) ==
    LET bars == CASE period = "1mo" -> MonthBars
                  [] period = "3mo" -> QuarterBars
                  [] period = "1y" -> YearBars
                  [] OTHER -> HalfYearBars
    IN RawTable("ticker", TRUE, [i \in 1..Len(bars) |-> i], bars)

\* what st.cache_data hashes for a call of get_analysis: the arguments
\* whose parameter name does not begin with an underscore, so all but _cfg
CacheKey(symbol, period, interval, cfg, rsi_period, macd_fast, macd_slow, macd_signal, use_volume) ==
    [symbol |-> symbol, period |-> period, interval |-> interval,
     rsi_period |-> rsi_period, macd_fast |-> macd_fast,
     macd_slow |-> macd_slow, macd_signal |-> macd_signal,
     use_volume |-> use_volume]

\* the body of get_analysis: analyze(symbol=..., cfg=_cfg, ...)
GetAnalysisBody(symbol, period, interval, cfg, rsi_period, macd_fast, macd_slow, macd_signal, use_volume) ==
    LET a == [op |-> "analyze", df |-> None, csv_path |-> None,
              symbol |-> [name |-> symbol], distance |-> cfg.distance,
              rsi_period |-> rsi_period, macd_fast |-> macd_fast,
              macd_slow |-> macd_slow, macd_signal |-> macd_signal,
              use_volume |-> use_volume]
        fetched == Download(symbol, period, interval)
    IN Analyze(a, FileTable, fetched)

Cached(store, key) == {e \in store : e.key = key}

\* what a call of get_analysis yields under @st.cache_data: the value stored
\* for the key as it is, if there is one; otherwise what the body returns
\* (or raises)
GetAnalysis(store, symbol, period, interval, cfg, rsi_period, macd_fast, macd_slow, macd_signal, use_volume) ==
    LET key == CacheKey(symbol, period, interval, cfg, rsi_period, macd_fast,
                        macd_slow, macd_signal, use_volume)
    IN IF Cached(store, key) # {}
       THEN (CHOOSE e \in Cached(store, key) : TRUE).value
       ELSE GetAnalysisBody(symbol, period, interval, cfg, rsi_period,
                            macd_fast, macd_slow, macd_signal, use_volume)

\* the store after the call: what the body returned is stored under the key,
\* unless the key was there or the body raised
Stored(store, key, result) ==
    IF Cached(store, key) # {} \/ result.kind # "ok" THEN store
    ELSE store \cup {[key |-> key, value |-> result]}

\* SRConfig(distance=distance, tolerance=tolerance, min_touches=2); the
\* tolerance is the widget's default, one percent
SRConfigOf(s) ==
    [distance |-> s.distance, tolerance |-> Rat(1, 100), min_touches |-> 2]

\* mutant: every BUY or SELL is sent, new or not
AlertLoopAlways(signals, i, last, sent) ==
    <<signals[Len(signals)].signal,
      SelectSeq([j \in 1..Len(signals) |-> signals[j].signal],
                LAMBDA kind : kind \in {"BUY", "SELL"})>>

\* lines 292-329, from signal i on: a signal whose kind differs from
\* last_alert[symbol] is shown as new, sends the alerts if it is a BUY or a
\* SELL (the popup, and sound, email and Telegram where they are set up),
\* and becomes last_alert[symbol].  Yields <<last_alert[symbol], the kinds
\* alerts were sent for>>.
RECURSIVE AlertLoop(_, _, _, _)
AlertLoop(signals, i, last, sent) ==
    IF i > Len(signals) THEN <<last, sent>>
    ELSE LET kind == signals[i].signal
             is_new == kind # last
         IN IF is_new
            THEN AlertLoop(signals, i + 1, kind,
                           IF kind \in {"BUY", "SELL"} THEN Append(sent, kind)
                           ELSE sent)
            ELSE AlertLoop(signals, i + 1, last, sent)

\* show_stock(symbol) with the sidebar reading s; an exception of
\* get_analysis is reported and leaves the alerts alone
ShowStock(symbol, s) ==
    \E result \in {GetAnalysis(cache, symbol, s.period, s.interval,
                                SRConfigOf(s), s.rsi_period, s.macd_fast,
                                s.macd_slow, s.macd_signal, s.use_volume)} :
       /\ shown' = [symbol |-> symbol, request |-> s, result |-> result]
       /\ cache' = Stored(cache,
                          CacheKey(symbol, s.period, s.interval, SRConfigOf(s),
                                   s.rsi_period, s.macd_fast, s.macd_slow,
                                   s.macd_signal, s.use_volume),
                          result)
       /\ \E alerts \in {IF result.kind = "ok"
                          THEN AlertLoop(result.signals, 1, last_alert[symbol], <<>>)
                          ELSE <<last_alert[symbol], <<>>>>} :
             /\ last_alert' = [last_alert EXCEPT ![symbol] = alerts[1]]
             /\ dispatched' = alerts[2]

\* one run of the script with the sidebar reading s
Rerun(s) ==
    /\ pc = "idle"
    /\ settings' = s
    /\ ShowStock(HomeSymbol, s)
    /\ UNCHANGED coreVars

\* the user picks another period
SelectPeriod ==
    \E p \in Periods \ {settings.period} :
        Rerun([settings EXCEPT !.period = p])

\* the user sets another SR distance
SetDistance ==
    \E d \in Distances \ {settings.distance} :
        Rerun([settings EXCEPT !.distance = d])

\* the user ticks or unticks the volume confirmation
ToggleVolumeFilter ==
    Rerun([settings EXCEPT !.use_volume = ~settings.use_volume])

\* a run with the sidebar as it is: the first run, or a refresh
Refresh == Rerun(settings)

NextApp == SelectPeriod \/ SetDistance \/ ToggleVolumeFilter \/ Refresh

SpecApp == Init /\ [][NextApp]_vars

-----------------------------------------------------------------------------
(* Claims about the dashboard's cache *)

\* what analyze returns for the parameters of a request
FreshResult(symbol, s) ==
    GetAnalysisBody(symbol, s.period, s.interval, SRConfigOf(s), s.rsi_period,
                    s.macd_fast, s.macd_slow, s.macd_signal, s.use_volume)

\* C8 as claimed: whatever the requests before it, the result get_analysis
\* serves for a request is what analyze returns for the parameters of that
\* request, the SR distance among them.
C8_ServedIsFresh ==
    shown # NoShow => shown.result = FreshResult(shown.symbol, shown.request)

\* What the code does hold to: the result served was computed by analyze
\* for a request that agrees with this one on every hashed argument, in
\* the SR distance possibly not.
C8_ServedForSameKey ==
    shown # NoShow =>
        \E d \in Distances :
            shown.result =
                FreshResult(shown.symbol, [shown.request EXCEPT !.distance = d])

\* A request served from the cache although its SR distance differs from
\* the one the stored result was computed with.
C8_StaleWitness ==
    /\ shown # NoShow
    /\ shown.result.kind = "ok"
    /\ shown.result # FreshResult(shown.symbol, shown.request)

\* the BUY and SELL kinds among the signals whose kind differs from the one
\* before it, the first being compared with `last`
NewAlerts(signals, last) ==
    LET before(i) == IF i = 1 THEN last ELSE signals[i - 1].signal
        new == SelectSeq([i \in 1..Len(signals) |-> i],
                         LAMBDA i : /\ signals[i].signal \in {"BUY", "SELL"}
                                    /\ signals[i].signal # before(i))
    IN [k \in 1..Len(new) |-> signals[new[k]].signal]

\* C13: show_stock sends the BUY/SELL alerts for a signal only when its kind
\* differs from last_alert[symbol] as it then stands, and last_alert[symbol]
\* becomes that kind; so a cycle that yields the same signal list as the
\* cycle before it, for the same symbol, sends no BUY/SELL alert.
C13_AlertOnlyWhenNew ==
    [][shown'.result.kind = "ok" =>
          /\ dispatched' = NewAlerts(shown'.result.signals, last_alert[shown'.symbol])
          /\ last_alert'[shown'.symbol] =
                 shown'.result.signals[Len(shown'.result.signals)].signal
          /\ (shown.symbol = shown'.symbol /\ shown.result.kind = "ok"
                 /\ shown.result.signals = shown'.result.signals)
              => dispatched' = <<>>]_vars

\* A cycle that yields two BUY signals after a cycle that left
\* last_alert at BUY: no alert is sent.
C13_Witness ==
    /\ shown.result.kind = "ok"
    /\ Kinds(shown.result.signals) = <<"BUY", "BUY">>
    /\ last_alert[shown.symbol] = "BUY"
    /\ dispatched = <<>>

\* A cycle that yields two BUY signals after a HOLD: one alert is sent, for
\* the first of them.
C13_FirstOnlyWitness ==
    /\ shown.result.kind = "ok"
    /\ Kinds(shown.result.signals) = <<"BUY", "BUY">>
    /\ dispatched = <<"BUY">>

\* A SELL after a BUY: the alert is sent.
C13_SellWitness ==
    /\ shown.result.kind = "ok"
    /\ Kinds(shown.result.signals) = <<"SELL">>
    /\ dispatched = <<"SELL">> /\ last_alert[shown.symbol] = "SELL"

-----------------------------------------------------------------------------
(* Calls of compute_rsi *)

MaxSeries == 5
MaxPeriod == 3

\* the period compute_rsi takes when none is given
DefaultPeriod == 14

\* the length of the long rising series
RisingBars == 50

SeriesPrices == {Num(1), Num(2), Num(3)}

RisingStarts == {1, 10}

RisingSteps == {<<1, 1>>, <<1, 2>>, <<2, 1>>}

\* the series of n bars that starts at `start` and rises by the two steps
\* in turn
RisingSeries(n, start, steps) ==
    [t \in 1..n |->
        Num(start + ((t - 1) \div 2) * (steps[1] + steps[2])
                  + (IF (t - 1) % 2 = 1 THEN steps[1] ELSE 0))]

\* <<series, period>>: every short series with every small period, and the
\* long rising ones with the default period
RsiArgs(n) ==
    {<<series, period>> : series \in SeqsOver(SeriesPrices, n), period \in 1..MaxPeriod}
    \cup
    {<<RisingSeries(RisingBars, start, steps), DefaultPeriod>> :
         start \in IF n = 0 THEN RisingStarts ELSE {}, steps \in RisingSteps}

CallComputeRSI ==
    /\ pc = "idle"
    /\ \E n \in 0..MaxSeries : \E a \in RsiArgs(n) :
          /\ call' = [op |-> "compute_rsi", series |-> a[1], period |-> a[2]]
          /\ ret' = [kind |-> "ok", rsi |-> ComputeRSI(a[1], a[2])]
    /\ pc' = "returned"
    /\ UNCHANGED appVars

NextRsi == CallComputeRSI \/ Return

SpecRsi == Init /\ [][NextRsi]_vars

-----------------------------------------------------------------------------
(* Claims about compute_rsi *)

RsiReturned == pc = "returned" /\ call.op = "compute_rsi"

Constant(series) == \A i, j \in 1..Len(series) : series[i] = series[j]

Rising(series) == \A i \in 2..Len(series) : Gt(series[i], series[i - 1])

\* C12: compute_rsi returns a series as long as its input; every value of
\* it, the first included, is a number in [0, 100]; of a constant series
\* every value is 0; of a series that rises bar after bar for 50 bars, with
\* period 14, the last value exceeds 50.
C12_RsiWithinRange ==
    RsiReturned =>
        /\ Len(ret.rsi) = Len(call.series)
        /\ \A t \in 1..Len(ret.rsi) :
              /\ IsNum(ret.rsi[t])
              /\ Ge(ret.rsi[t], Num(0)) /\ Le(ret.rsi[t], Num(100))
        /\ Constant(call.series) =>
              \A t \in 1..Len(ret.rsi) : ret.rsi[t] = Num(0)
        /\ (Rising(call.series) /\ Len(call.series) = RisingBars
              /\ call.period = DefaultPeriod)
           => Gt(ret.rsi[RisingBars], Num(50))

\* The long rising series with the default period: the last value is above
\* 50, the first is 0.
C12_Witness ==
    /\ RsiReturned
    /\ Len(call.series) = RisingBars /\ call.period = DefaultPeriod
    /\ Rising(call.series)
    /\ ret.rsi[1] = Num(0)
    /\ Gt(ret.rsi[RisingBars], Num(50))

\* A series that rises and falls within one window: the value lies
\* strictly between 0 and 100.
C12_MixedWitness ==
    /\ RsiReturned /\ Len(call.series) = 3 /\ call.period = 2
    /\ Gt(call.series[2], call.series[1]) /\ Lt(call.series[3], call.series[2])
    /\ Gt(ret.rsi[3], Num(0)) /\ Lt(ret.rsi[3], Num(100))

\* A constant series of several bars: every value is 0.
C12_ConstantWitness ==
    /\ RsiReturned /\ Len(call.series) = MaxSeries /\ Constant(call.series)
    /\ \A t \in 1..Len(ret.rsi) : ret.rsi[t] = Num(0)

====
